---- MODULE Spec2Model ----
(***************************************************************************)
(* Model of the Solana transaction tracker: the reducer of AppContext.jsx,  *)
(* the sequencer and confirmation race of App.jsx (handleSendTransaction,   *)
(* executeSingleTransaction) and the subscription / detail lookup helper of *)
(* solanaUtils.js (subscribeToSignatureConfirmation).                       *)
(*                                                                         *)
(* JavaScript runs every callback to completion, so one action is one task  *)
(* of the event loop together with the microtasks it queues.  The `state`   *)
(* that handleSendTransaction and its callbacks read is the value React     *)
(* handed to the render in which the button was clicked; it is kept in      *)
(* `closure`, apart from the live reducer state `state`.                    *)
(* Display-only strings (globalStatus, configStatus, urls, log messages)    *)
(* are left out; an event log entry is its timestamp.                       *)
(***************************************************************************)
EXTENDS Integers, Sequences, FiniteSets, TLC

VARIABLES
    state,                 \* live reducer state (useReducer)
    closure,               \* per attempt: the state object captured by the running handler
    firstWsConfirmedRef,   \* useRef(false)
    activeSubscriptions,   \* useRef([]) : sequence of handles
    localNumberOfTransactionsRef,
    keyOk,                 \* whether config.privateKey parses
    subId,                 \* the id connection.onSignature returns on a new Connection
    pc,                    \* position of handleSendTransaction
    transactionsProcessed, \* its local counter
    numTransactionsToRun,  \* its local constant
    started,               \* number of attempts started so far (id of the newest attempt)
    subs,                  \* per attempt and WS endpoint: state of the subscription
    rpcInFlight,           \* RPC sends that have not settled yet
    now,                   \* Date.now()
    wins,                  \* history: per attempt, the endpoints whose callback completed the race
    removeCalls,           \* history: handles the coordinator called removeSignatureListener on
    rejected,              \* history: attempts whose executeSingleTransaction threw
    rs,                    \* the detail resolver run on its own
    dispatched,            \* number of actions handed to the reducer run on its own
    single                 \* the single-transaction page (src/App.jsx): its state, refs and handler

vars == <<state, closure, firstWsConfirmedRef, activeSubscriptions,
          localNumberOfTransactionsRef, keyOk, subId, single, pc, transactionsProcessed,
          numTransactionsToRun, started, subs, rpcInFlight, now, wins,
          removeCalls, rejected, rs, dispatched>>

flowVars == <<state, closure, firstWsConfirmedRef, activeSubscriptions,
              localNumberOfTransactionsRef, keyOk, subId, pc, transactionsProcessed,
              numTransactionsToRun, started, subs, rpcInFlight, now, wins,
              removeCalls, rejected, rs, dispatched>>

appVars == <<state, closure, firstWsConfirmedRef, activeSubscriptions,
             localNumberOfTransactionsRef, keyOk, subId, single, pc, transactionsProcessed,
             numTransactionsToRun, started, subs, rpcInFlight, now, wins,
             removeCalls, rejected, dispatched>>

----------------------------------------------------------------------------
(* Bounds *)

MaxTx == 2             \* largest number of transactions typed into the input field
MaxAttempts == 2       \* attempts started over the lifetime of the page
MaxSlot == 2           \* slots 0..MaxSlot
MaxBlockTime == 1      \* block times (Unix seconds) 1..MaxBlockTime
MaxNow == 2            \* Date.now() runs over 1..MaxNow
MaxDispatches == 4     \* actions dispatched when the reducer is driven on its own

(* Configuration: the endpoint names of rpc-urls and ws-urls, in order *)
RpcUrls == <<"A", "B">>
WsUrls == <<"C", "D">>

RpcNames == {RpcUrls[i] : i \in 1..Len(RpcUrls)}
WsNames == {WsUrls[i] : i \in 1..Len(WsUrls)}
Attempts == 1..MaxAttempts

(* JavaScript null for numbers, strings; the name of a missing property.
   Subscription ids are taken to be truthy. *)
NullNum == 0 - 1
Null == "null"
Undefined == "undefined"
NA == 0                \* the 'N/A' signature of an error record

----------------------------------------------------------------------------
(* AppContext.jsx : the reducer *)

initialState ==
    [ isLoading |-> FALSE,
      isComplete |-> FALSE,
      transactionSignature |-> NullNum,
      createdAt |-> NullNum,
      transactionSentAt |-> NullNum,
      firstWsConfirmedAt |-> NullNum,
      firstSentToEndpointName |-> Null,
      firstConfirmedByEndpointName |-> Null,
      rpcSendResults |-> <<>>,
      wsConfirmationResults |-> <<>>,
      globalError |-> Null,
      eventLog |-> <<>>,
      numberOfTransactions |-> 1,
      currentTransactionIndex |-> 0,
      allTransactionResults |-> <<>>,
      allProcessesComplete |-> FALSE ]

(* r.name of an object that may lack the property *)
NameOf(r) == IF "name" \in DOMAIN r THEN r.name ELSE Undefined

(* { ...a, ...b } *)
ShallowMerge(a, b) ==
    [k \in (DOMAIN a) \cup (DOMAIN b) |-> IF k \in DOMAIN b THEN b[k] ELSE a[k]]

(* list.findIndex(r => r.name === name), 0 when absent *)
FindIndex(list, name) ==
    IF \E i \in 1..Len(list) : NameOf(list[i]) = name
    THEN CHOOSE i \in 1..Len(list) :
            /\ NameOf(list[i]) = name
            /\ \A j \in 1..(i - 1) : NameOf(list[j]) # name
    ELSE 0

(* every update is appended *)
UpdateResultAppends(list, payload) == Append(list, payload)

(* UPDATE_RPC_SEND_RESULT / UPDATE_WS_CONFIRMATION_RESULT: merge or append *)
UpdateResult(list, payload) ==
    LET existingIndex == FindIndex(list, NameOf(payload))
    IN  IF existingIndex > 0
        THEN [list EXCEPT ![existingIndex] = ShallowMerge(list[existingIndex], payload)]
        ELSE Append(list, payload)

(* allTransactionResults.findIndex(tx => tx.signature === sigToFind) *)
FindSignature(results, sig) ==
    IF \E i \in 1..Len(results) : results[i].signature = sig
    THEN CHOOSE i \in 1..Len(results) :
            /\ results[i].signature = sig
            /\ \A j \in 1..(i - 1) : results[j].signature # sig
    ELSE 0

ResetForTx(s) ==
    [s EXCEPT !.isLoading = TRUE,
              !.isComplete = FALSE,
              !.transactionSignature = NullNum,
              !.createdAt = NullNum,
              !.transactionSentAt = NullNum,
              !.firstWsConfirmedAt = NullNum,
              !.firstSentToEndpointName = Null,
              !.firstConfirmedByEndpointName = Null,
              !.rpcSendResults = <<>>,
              !.wsConfirmationResults = <<>>,
              !.globalError = Null]

ProcessStartAll(s) ==
    [ResetForTx(s) EXCEPT !.allProcessesComplete = FALSE,
                          !.currentTransactionIndex = 0,
                          !.allTransactionResults = <<>>]

NewResult(s) ==
    [ signature |-> s.transactionSignature,
      createdAt |-> s.createdAt,
      sentAt |-> s.transactionSentAt,
      firstSentToEndpointName |-> s.firstSentToEndpointName,
      firstWsConfirmedAt |-> s.firstWsConfirmedAt,
      firstConfirmedByEndpointName |-> s.firstConfirmedByEndpointName,
      rpcSendResults |-> s.rpcSendResults,
      wsConfirmationResults |-> s.wsConfirmationResults,
      error |-> Null ]

(* the index advances with every completion *)
ProcessSingleTxCompleteAdvances(s) ==
    [s EXCEPT !.isComplete = TRUE,
              !.allTransactionResults = Append(s.allTransactionResults, NewResult(s)),
              !.currentTransactionIndex = s.currentTransactionIndex + 1]

(* PROCESS_SINGLE_TX_COMPLETE: append the record, advance or finish *)
ProcessSingleTxComplete(s) ==
    LET updated == Append(s.allTransactionResults, NewResult(s))
    IN  IF s.currentTransactionIndex < s.numberOfTransactions - 1
        THEN [s EXCEPT !.isComplete = TRUE,
                       !.allTransactionResults = updated,
                       !.currentTransactionIndex = s.currentTransactionIndex + 1]
        ELSE [s EXCEPT !.isLoading = FALSE,
                       !.isComplete = TRUE,
                       !.allProcessesComplete = TRUE,
                       !.allTransactionResults = updated]

ProcessError(s, message) ==
    LET sigToFind == s.transactionSignature
        existingTxIndex == IF sigToFind # NullNum
                           THEN FindSignature(s.allTransactionResults, sigToFind)
                           ELSE 0
        errorResultEntry ==
            [NewResult(s) EXCEPT !.signature = IF sigToFind # NullNum THEN sigToFind ELSE NA,
                                 !.error = message]
        updatedErrorResults ==
            IF existingTxIndex > 0
            THEN [s.allTransactionResults EXCEPT ![existingTxIndex].error = message]
            ELSE Append(s.allTransactionResults, errorResultEntry)
    IN  [s EXCEPT !.isLoading = FALSE,
                  !.globalError = "critical",
                  !.isComplete = TRUE,
                  !.allProcessesComplete = TRUE,
                  !.allTransactionResults = updatedErrorResults]

(* Math.max(1, parseInt(payload, 10) || 1) *)
ClampCount(n) == IF n >= 1 THEN n ELSE 1

appReducer(s, a) ==
    CASE a.type = "SET_NUMBER_OF_TRANSACTIONS" ->
            [s EXCEPT !.numberOfTransactions = ClampCount(a.payload)]
      [] a.type = "PROCESS_START_ALL" -> ProcessStartAll(s)
      [] a.type = "PROCESS_START_SINGLE_TX" -> ResetForTx(s)
      [] a.type = "SET_TX_INFO" ->
            [s EXCEPT !.transactionSignature = a.signature, !.createdAt = a.createdAt]
      [] a.type = "UPDATE_RPC_SEND_RESULT" ->
            [s EXCEPT !.rpcSendResults = UpdateResult(s.rpcSendResults, a.payload)]
      [] a.type = "UPDATE_WS_CONFIRMATION_RESULT" ->
            [s EXCEPT !.wsConfirmationResults = UpdateResult(s.wsConfirmationResults, a.payload)]
      [] a.type = "PROCESS_SINGLE_TX_COMPLETE" -> ProcessSingleTxComplete(s)
      [] a.type = "PROCESS_ERROR" -> ProcessError(s, a.message)
      [] a.type = "LOG_EVENT" ->
            [s EXCEPT !.eventLog = Append(s.eventLog, a.timestamp)]
      [] a.type = "SET_TRANSACTION_SENT_AT" ->
            [s EXCEPT !.transactionSentAt = a.timestamp,
                      !.firstSentToEndpointName =
                          IF a.endpointName # Undefined THEN a.endpointName
                          ELSE s.firstSentToEndpointName]
      [] a.type = "SET_FIRST_WS_CONFIRMED_AT" ->
            [s EXCEPT !.firstWsConfirmedAt = a.timestamp,
                      !.firstConfirmedByEndpointName = a.endpointName]
      [] OTHER -> s

(* the dispatches of one task, applied in order *)
RECURSIVE Dispatch(_, _)
Dispatch(s, actions) ==
    IF actions = <<>> THEN s
    ELSE Dispatch(appReducer(s, Head(actions)), Tail(actions))

LogEvent(t) == [type |-> "LOG_EVENT", timestamp |-> t]

(* n log entries stamped t (console.log/error/warn are intercepted into LOG_EVENT) *)
Logs(n, t) == [i \in 1..n |-> LogEvent(t)]

----------------------------------------------------------------------------
(* solanaUtils.js : detail lookup after a successful WS signal *)

maxRetries == 10

(* what one connection.getTransaction call does *)
Throws == [kind |-> "throw", slot |-> NullNum, blockTime |-> NullNum]
ReturnsNull == [kind |-> "null", slot |-> NullNum, blockTime |-> NullNum]
Details(slot, blockTime) == [kind |-> "details", slot |-> slot, blockTime |-> blockTime]

Slots == 0..MaxSlot
BlockTimes == 1..MaxBlockTime
LookupOutcomes ==
    {Throws, ReturnsNull}
    \cup {Details(sl, bt) : sl \in Slots \cup {NullNum}, bt \in BlockTimes \cup {NullNum}}

(* JavaScript truthiness of a number or null *)
Truthy(n) == n # NullNum /\ n # 0

(* transactionDetails && transactionDetails.slot *)
LookupOk(o) == o.kind = "details" /\ Truthy(o.slot)

(* fetchedBlockTime = transactionDetails.blockTime || null *)
BlockTimeOrNull(bt) == IF Truthy(bt) THEN bt ELSE NullNum

(* a wait precedes the first lookup *)
startAfterWait ==
    [ fetchedSlot |-> NullNum, fetchedBlockTime |-> NullNum,
      getTransactionError |-> Null, lookups |-> 0, waits |-> 1, logs |-> 0 ]

startOfLoop ==
    [ fetchedSlot |-> NullNum, fetchedBlockTime |-> NullNum,
      getTransactionError |-> Null, lookups |-> 0, waits |-> 0, logs |-> 0 ]

(* the for loop over attempt = 1..maxRetries *)
RECURSIVE RetryLoop(_, _, _)
RetryLoop(script, attempt, acc) ==
    IF attempt > maxRetries THEN acc
    ELSE LET o == script[attempt]
         IN  IF LookupOk(o)
             THEN [acc EXCEPT !.fetchedSlot = o.slot,
                              !.fetchedBlockTime = BlockTimeOrNull(o.blockTime),
                              !.getTransactionError = Null,
                              !.lookups = acc.lookups + 1,
                              !.logs = acc.logs + 1]
             ELSE LET failed ==
                        [acc EXCEPT !.getTransactionError =
                                        IF o.kind = "throw" THEN "getTransaction threw"
                                        ELSE "getTransaction returned null or no slot",
                                    !.lookups = acc.lookups + 1,
                                    !.logs = acc.logs + 2]
                  IN  IF attempt < maxRetries
                      THEN RetryLoop(script, attempt + 1,
                                     [failed EXCEPT !.waits = failed.waits + 1])
                      ELSE failed

(* fallback to the slot of the WS notification *)
SlotFallback(loop, ctxSlot) ==
    IF ~Truthy(loop.fetchedSlot) /\ Truthy(ctxSlot)
    THEN [loop EXCEPT !.fetchedSlot = ctxSlot,
                      !.getTransactionError =
                          IF loop.getTransactionError = Null
                          THEN "getTransaction failed after all retries"
                          ELSE loop.getTransactionError,
                      !.logs = loop.logs + 1]
    ELSE IF ~Truthy(loop.fetchedSlot) /\ ~Truthy(ctxSlot)
         THEN [loop EXCEPT !.logs = loop.logs + 1]
         ELSE loop

(* what the notification callback passes to onConfirmation, with the
   numbers of lookups, waits and console lines it took *)
ResolveDetails(script, ctxSlot, endpointName, confirmedAt) ==
    LET final == SlotFallback(RetryLoop(script, 1, startOfLoop), ctxSlot)
    IN  [ payload |->
            [ endpointName |-> endpointName,
              confirmedAt |-> confirmedAt,
              slot |-> final.fetchedSlot,
              blockTime |-> final.fetchedBlockTime,
              error |-> final.getTransactionError,
              status |-> IF final.getTransactionError # Null
                         THEN "RPC GetTransaction Error" ELSE "Confirmed" ],
          lookups |-> final.lookups,
          waits |-> final.waits,
          logs |-> final.logs + 1 ]

(* lookup scripts: outcome `before` on the tries below k, `at` on try k,
   `after` on the tries above k *)
Script(k, before, at, after) ==
    [i \in 1..maxRetries |-> IF i < k THEN before ELSE IF i = k THEN at ELSE after]

Scripts ==
    {Script(k, b, a, c) : k \in 1..maxRetries, b \in LookupOutcomes,
                          a \in LookupOutcomes, c \in {Throws, Details(MaxSlot, MaxBlockTime)}}

rsIdle == [phase |-> "idle"]

(* a successful WS signal arrives: slot of its context, and what the lookups will do *)
ResolverSignal ==
    /\ rs.phase = "idle"
    /\ \E script \in Scripts, ctxSlot \in Slots :
          rs' = [phase |-> "resolving", script |-> script, ctxSlot |-> ctxSlot]
    /\ UNCHANGED appVars

(* the retry loop runs and onConfirmation is called *)
ResolverFinish ==
    /\ rs.phase = "resolving"
    /\ rs' = [phase |-> "done", script |-> rs.script, ctxSlot |-> rs.ctxSlot,
              result |-> ResolveDetails(rs.script, rs.ctxSlot, "C", now)]
    /\ UNCHANGED appVars

ResolverReset ==
    /\ rs.phase = "done"
    /\ rs' = rsIdle
    /\ UNCHANGED appVars

----------------------------------------------------------------------------
(* App.jsx : the confirmation race *)

Handle(g, e) == <<g, e>>

(* the ids connection.onSignature may return: the library numbers the
   subscriptions of a Connection from a counter, and every subscription here
   is the first one of a new Connection *)
SubIds == {0, 1}

(* st: "none" not subscribed, "failed" onSignature threw, "listening",
   "removed" listener removed by the coordinator while the timer still runs,
   "expired" the timer ran out and cleanup() left the listener registered,
   "resolving" signal received and lookups under way, and the three ways
   onConfirmation was called: "confirmed", "errored", "timedout".
   calls counts the invocations of onConfirmation by this subscription.
   History: beforeSend tells whether the subscription had been requested when
   the first RPC send of its attempt was started.
   confirmedAt and ctxSlot are the locals of the notification callback.
   History: `earlier` is the set of endpoints of the attempt whose success
   signal had arrived before this one's; slot, blockTime and detailError are
   those of the payload the notification callback passed to onConfirmation. *)
noSub ==
    [ st |-> "none", calls |-> 0, beforeSend |-> FALSE, confirmedAt |-> NullNum, ctxSlot |-> NullNum,
      earlier |-> {}, slot |-> NullNum, blockTime |-> NullNum, detailError |-> Null ]

(* the refs, the reducer state and the listeners that a callback may touch *)
Machine(s, ref, active, sb, removed, w) ==
    [state |-> s, ref |-> ref, active |-> active, subs |-> sb, removed |-> removed, wins |-> w]

Current == Machine(state, firstWsConfirmedRef, activeSubscriptions, subs, removeCalls, wins)

Say(M, actions) == [M EXCEPT !.state = Dispatch(M.state, actions)]

HandlesOf(active) == {active[i] : i \in 1..Len(active)}

(* connection.removeSignatureListener(subId) for every entry: a listener that
   still waits is gone; its timeout timer is not touched *)
RemoveListeners(sb, active) ==
    [h \in DOMAIN sb |->
        IF h \in HandlesOf(active) /\ sb[h].st = "listening"
        THEN [sb[h] EXCEPT !.st = "removed"]
        ELSE IF h \in HandlesOf(active) /\ sb[h].st = "expired"
        THEN [sb[h] EXCEPT !.st = "timedout"]
        ELSE sb[h]]

(* the list is left as it was *)
KeptList(active) == active

(* activeSubscriptions.current = [] after the forEach *)
ClearedList(active) == <<>>

(* forEach removeSignatureListener (one console line each), then clear *)
CleanupSubscriptions(M) ==
    [Say(M, Logs(Len(M.active), now))
        EXCEPT !.subs = RemoveListeners(M.subs, M.active),
               !.removed = M.removed \cup HandlesOf(M.active),
               !.active = ClearedList(M.active)]

UpdateWs(payload) == [type |-> "UPDATE_WS_CONFIRMATION_RESULT", payload |-> payload]
UpdateRpc(payload) == [type |-> "UPDATE_RPC_SEND_RESULT", payload |-> payload]
Complete == [type |-> "PROCESS_SINGLE_TX_COMPLETE"]

(* confirmationResult.confirmedAt || Date.now() *)
EventTimestamp(payload) ==
    IF "confirmedAt" \in DOMAIN payload /\ Truthy(payload.confirmedAt)
    THEN payload.confirmedAt ELSE now

(* firstWsConfirmedRef.current && state.isComplete, on the captured state *)
AlreadyProcessed(ref, cl) == ref /\ cl.isComplete

(* the first confirmation completes the transaction *)
WinCompletion(M, g, payload) ==
    LET M1 == Say(M, <<LogEvent(now),
                       [type |-> "SET_FIRST_WS_CONFIRMED_AT",
                        timestamp |-> EventTimestamp(payload),
                        endpointName |-> payload.endpointName],
                       Complete,
                       LogEvent(now)>>)
    IN  [CleanupSubscriptions(M1)
            EXCEPT !.ref = TRUE,
                   !.wins = [M.wins EXCEPT ![g] = @ \cup {payload.endpointName}]]

(* any report completes the transaction, an error too *)
onConfirmationEager(M, g, cl, payload) ==
    LET M1 == Say(M, <<UpdateWs(payload), LogEvent(EventTimestamp(payload))>>)
    IN  IF ~M.ref THEN WinCompletion(M1, g, payload) ELSE M1

(* the callback handed to subscribeToSignatureConfirmation by attempt g *)
onConfirmation(M, g, cl, payload) ==
    IF AlreadyProcessed(M.ref, cl)
    THEN Say(M, <<LogEvent(now)>>)
    ELSE LET M1 == Say(M, <<UpdateWs(payload), LogEvent(EventTimestamp(payload))>>)
         IN  IF payload.error = Null /\ ~M.ref
             THEN WinCompletion(M1, g, payload)
             ELSE M1

----------------------------------------------------------------------------
(* App.jsx : executeSingleTransaction after the transaction was created *)

(* subscribeToSignatureConfirmation up to its return: onSignature registers
   the listener or throws *)
SubscribeOne(M, g, cl, e, ok) ==
    LET M1 == Say(M, <<UpdateWs([name |-> e, status |-> "Subscribing..."]), LogEvent(now)>>)
    IN  IF ok
        THEN [M1 EXCEPT !.subs[Handle(g, e)].st = "listening"]
        ELSE LET M2 == [Say(M1, <<LogEvent(now)>>)
                          EXCEPT !.subs[Handle(g, e)] = [@ EXCEPT !.st = "failed", !.calls = 1]]
             IN  onConfirmation(M2, g, cl,
                    [endpointName |-> e, error |-> "subscribe failed",
                     status |-> "WS Subscription Setup Error"])

RECURSIVE SubscribeAll(_, _, _, _, _)
SubscribeAll(M, g, cl, urls, subOk) ==
    IF urls = <<>> THEN M
    ELSE SubscribeAll(SubscribeOne(M, g, cl, Head(urls), subOk[Head(urls)]),
                      g, cl, Tail(urls), subOk)

(* state.config.rpcUrls.forEach: mark 'Sending...' and start the send *)
RECURSIVE SendAll(_, _, _)
SendAll(M, urls, first) ==
    IF urls = <<>> THEN M
    ELSE LET r == Head(urls)
             acts == <<UpdateRpc([name |-> r, status |-> "Sending...", sentAt |-> now]),
                       LogEvent(now)>>
                     \o (IF first
                         THEN <<[type |-> "SET_TRANSACTION_SENT_AT",
                                 timestamp |-> now, endpointName |-> r]>>
                         ELSE <<>>)
         IN  SendAll(Say(M, acts), Tail(urls), FALSE)

(* a failed subscription fails the transaction *)
SubscriptionSettledFatal(M, g, cl, e, ok) ==
    IF ok
    THEN [M EXCEPT !.active = Append(M.active, Handle(g, e))]
    ELSE Say(M, <<[type |-> "PROCESS_ERROR", message |-> "subscribe failed"]>>)

(* the .then / .catch of one subscription promise *)
SubscriptionSettled(M, g, cl, e, ok) ==
    IF ok
    THEN LET M1 == [Say(M, <<LogEvent(now)>>) EXCEPT !.active = Append(M.active, Handle(g, e))]
         IN  IF ~M.ref
             THEN Say(M1, <<UpdateWs([name |-> e, status |-> "Subscribed, Awaiting Confirmation"])>>)
             ELSE M1
    ELSE LET M1 == Say(M, <<LogEvent(now)>>)
             M2 == IF ~M.ref /\ ~cl.isComplete
                   THEN Say(M1, <<UpdateWs([name |-> e, status |-> "WS Sub Setup Error",
                                            error |-> "subscribe failed"])>>)
                   ELSE M1
         IN  Say(M2, <<LogEvent(now)>>)

RECURSIVE SettleAll(_, _, _, _, _)
SettleAll(M, g, cl, urls, subOk) ==
    IF urls = <<>> THEN M
    ELSE SettleAll(SubscriptionSettled(M, g, cl, Head(urls), subOk[Head(urls)]),
                   g, cl, Tail(urls), subOk)

(* state.isLoading && !firstWsConfirmedRef.current && !state.isComplete *)
FallbackDue(ref, cl) == cl.isLoading /\ ~ref /\ ~cl.isComplete

(* after Promise.allSettled(wsPromises) *)
Fallback(M, cl) ==
    IF FallbackDue(M.ref, cl)
    THEN CleanupSubscriptions(Say(M, <<LogEvent(now), Complete, LogEvent(now)>>))
    ELSE M

(* history: the sends of attempt g start now *)
AtFirstSend(M, g) ==
    [M EXCEPT !.subs = [h \in DOMAIN M.subs |->
                          IF h[1] = g
                          THEN [M.subs[h] EXCEPT !.beforeSend = (M.subs[h].st # "none")]
                          ELSE M.subs[h]]]

(* the sends are started before the subscriptions are requested *)
RaceSetupSendsFirst(M, g, cl, subOk) ==
    LET M1 == Say(M, <<[type |-> "SET_TX_INFO", signature |-> g, createdAt |-> now],
                       LogEvent(now),
                       [type |-> "SET_TRANSACTION_SENT_AT",
                        timestamp |-> now, endpointName |-> Undefined],
                       LogEvent(now)>>)
        M2 == SendAll(Say(AtFirstSend(M1, g), <<LogEvent(now)>>), RpcUrls, TRUE)
        M3 == SubscribeAll(M2, g, cl, WsUrls, subOk)
        M4 == SettleAll(M3, g, cl, WsUrls, subOk)
    IN  Fallback(M4, cl)

(* from the created transaction to the return of executeSingleTransaction *)
RaceSetup(M, g, cl, subOk) ==
    LET M1 == Say(M, <<[type |-> "SET_TX_INFO", signature |-> g, createdAt |-> now],
                       LogEvent(now),
                       [type |-> "SET_TRANSACTION_SENT_AT",
                        timestamp |-> now, endpointName |-> Undefined],
                       LogEvent(now)>>)
        M2 == SubscribeAll(M1, g, cl, WsUrls, subOk)
        M3 == SendAll(Say(AtFirstSend(M2, g), <<LogEvent(now)>>), RpcUrls, TRUE)
        M4 == SettleAll(M3, g, cl, WsUrls, subOk)
    IN  Fallback(M4, cl)

(* the catch block dispatches PROCESS_ERROR whatever the captured state says *)
CatchSetupErrorDispatches(cl) ==
    <<LogEvent(now), [type |-> "PROCESS_ERROR", message |-> "setup failed"], LogEvent(now)>>

(* the catch block of executeSingleTransaction *)
CatchSetupError(cl) ==
    <<LogEvent(now)>>
    \o (IF cl.isLoading /\ ~cl.isComplete
        THEN <<[type |-> "PROCESS_ERROR", message |-> "setup failed"]>>
        ELSE <<>>)
    \o <<LogEvent(now)>>

----------------------------------------------------------------------------
(* App.jsx : handleSendTransaction *)

(* if (!state.allProcessesComplete) dispatch PROCESS_ALL_COMPLETE *)
EndOfLoop(cl) ==
    IF ~cl.allProcessesComplete THEN <<[type |-> "PROCESS_ALL_COMPLETE"]>> ELSE <<>>

(* the loop sleeps after every transaction that was not aborted *)
LoopTailAlwaysSleeps(cl, tp, num, outcome) ==
    LET tp1 == IF outcome = "abort" THEN tp ELSE tp + 1
    IN  [ actions |-> <<LogEvent(now)>>,
          pc |-> IF outcome # "abort" THEN "sleeping" ELSE "idle",
          transactionsProcessed |-> tp1 ]

(* the rest of one loop iteration after executeSingleTransaction returned
   ("ok") or threw and window.confirm answered ("continue", "abort") *)
LoopTail(cl, tp, num, outcome) ==
    LET tp1 == IF outcome = "abort" THEN tp ELSE tp + 1
        more == outcome # "abort" /\ tp1 < num
        acts == CASE outcome = "ok" ->
                        IF tp1 >= num THEN Logs(2, now) ELSE Logs(1, now)
                  [] outcome = "continue" -> Logs(2, now)
                  [] outcome = "abort" -> Logs(3, now)
    IN  [ actions |-> IF more THEN acts \o <<LogEvent(now)>> ELSE acts \o EndOfLoop(cl),
          pc |-> IF more THEN "sleeping" ELSE "idle",
          transactionsProcessed |-> tp1 ]

Install(M) ==
    /\ state' = M.state
    /\ firstWsConfirmedRef' = M.ref
    /\ activeSubscriptions' = M.active
    /\ subs' = M.subs
    /\ removeCalls' = M.removed
    /\ wins' = M.wins

(* top of a loop iteration up to the first await of executeSingleTransaction;
   parsePrivateKey throws at once when the key is bad *)
BeginAttempt(M, cl, tp, num) ==
    LET M1 == CleanupSubscriptions(
                 [Say(M, <<LogEvent(now), [type |-> "PROCESS_START_SINGLE_TX"]>>)
                    EXCEPT !.ref = FALSE])
    IN  /\ started' = started + 1
        /\ closure' = [closure EXCEPT ![started + 1] = cl]
        /\ numTransactionsToRun' = num
        /\ IF keyOk
           THEN /\ Install(Say(M1, <<LogEvent(now)>>))
                /\ pc' = "creating"
                /\ transactionsProcessed' = tp
                /\ rejected' = rejected
           ELSE \E answer \in {"continue", "abort"} :
                   LET tail == LoopTail(cl, tp, num, answer)
                   IN  /\ Install(Say(M1, CatchSetupError(cl) \o tail.actions))
                       /\ rejected' = rejected \cup {started + 1}
                       /\ pc' = tail.pc
                       /\ transactionsProcessed' = tail.transactionsProcessed

(* the number input *)
handleNumberOfTransactionsChange ==
    /\ ~state.isLoading
    /\ pc = "idle"
    /\ \E n \in 1..MaxTx : localNumberOfTransactionsRef' = n
    /\ UNCHANGED <<state, closure, firstWsConfirmedRef, activeSubscriptions, keyOk, subId, single, pc,
                   transactionsProcessed, numTransactionsToRun, started, subs,
                   rpcInFlight, now, wins, removeCalls, rejected, rs, dispatched>>

(* the Send button *)
handleSendTransaction ==
    /\ ~state.isLoading
    /\ pc = "idle"
    /\ started + localNumberOfTransactionsRef <= MaxAttempts
    /\ LET num == localNumberOfTransactionsRef
           cl == [isLoading |-> state.isLoading, isComplete |-> state.isComplete,
                  allProcessesComplete |-> state.allProcessesComplete]
           M == Say(Current, <<[type |-> "SET_NUMBER_OF_TRANSACTIONS", payload |-> num],
                               LogEvent(now),
                               [type |-> "PROCESS_START_ALL"]>>)
       IN  BeginAttempt(M, cl, 0, num)
    /\ UNCHANGED <<localNumberOfTransactionsRef, keyOk, subId, single, rpcInFlight, now, rs, dispatched>>

(* the loop starts over with its counter at 0 *)
NextTransactionRestarts ==
    /\ pc = "sleeping"
    /\ BeginAttempt(Current, closure[started], 0, numTransactionsToRun)
    /\ UNCHANGED <<localNumberOfTransactionsRef, keyOk, subId, single, rpcInFlight, now, rs, dispatched>>

(* the 2 s sleep between two transactions ends *)
NextTransaction ==
    /\ pc = "sleeping"
    /\ BeginAttempt(Current, closure[started], transactionsProcessed, numTransactionsToRun)
    /\ UNCHANGED <<localNumberOfTransactionsRef, keyOk, subId, single, rpcInFlight, now, rs, dispatched>>

(* createSimpleTransferTransaction throws *)
CreationFails ==
    /\ pc = "creating"
    /\ \E answer \in {"continue", "abort"} :
          LET cl == closure[started]
              tail == LoopTail(cl, transactionsProcessed, numTransactionsToRun, answer)
          IN  /\ state' = Dispatch(state, <<LogEvent(now)>> \o CatchSetupError(cl) \o tail.actions)
              /\ pc' = tail.pc
              /\ transactionsProcessed' = tail.transactionsProcessed
    /\ rejected' = rejected \cup {started}
    /\ UNCHANGED <<closure, firstWsConfirmedRef, activeSubscriptions,
                   localNumberOfTransactionsRef, keyOk, subId, single, numTransactionsToRun, started,
                   subs, rpcInFlight, now, wins, removeCalls, rs, dispatched>>

(* only the first endpoint is sent to *)
SubmitsToFirst(g) == {<<g, RpcUrls[1]>>}

(* rpcUrls.forEach: one sendTransactionToRpc call per configured endpoint *)
Submits(g) == {<<g, r>> : r \in RpcNames}

(* createSimpleTransferTransaction returns: subscribe, send, return to the loop *)
CreationSucceeds ==
    /\ pc = "creating"
    /\ \E subOk \in [WsNames -> BOOLEAN] :
          LET cl == closure[started]
              M == RaceSetup(Current, started, cl, subOk)
              tail == LoopTail(cl, transactionsProcessed, numTransactionsToRun, "ok")
          IN  /\ Install(Say(M, tail.actions))
              /\ pc' = tail.pc
              /\ transactionsProcessed' = tail.transactionsProcessed
    /\ rpcInFlight' = rpcInFlight \cup Submits(started)
    /\ UNCHANGED <<closure, localNumberOfTransactionsRef, keyOk, subId, single, numTransactionsToRun,
                   started, now, rejected, rs, dispatched>>

----------------------------------------------------------------------------
(* solanaUtils.js : subscribeToSignatureConfirmation, the events of one subscription *)

(* lookups either work at once or all throw *)
LookupsWork == Script(1, Throws, Details(MaxSlot - 1, MaxBlockTime), Throws)
LookupsFail == Script(1, Throws, Throws, Throws)

(* the 100 s timer of attempt g can only run out once an unbounded wait
   (a later transaction's creation, the confirm dialog, the end of the run)
   has followed its start; the sleep between two transactions is 2 s *)
TimerMayFire(g) == g < started \/ pc = "idle"

(* cleanup() run by the timer: if (subId && ...) removeSignatureListener *)
ListenerAfterCleanup(st) ==
    IF st = "listening" /\ ~Truthy(subId) THEN "expired" ELSE "timedout"

(* the console line of cleanup() *)
CleanupLogs == IF Truthy(subId) THEN 1 ELSE 0

(* history: the endpoints of attempt g whose success signal has arrived *)
SignalledBefore(g) ==
    {e2 \in WsNames : subs[Handle(g, e2)].st \in {"resolving", "confirmed"}}

(* the signature notification arrives: cleanup(), then either the remote
   error is reported or the detail lookups start *)
WsNotification(g, e) ==
    /\ subs[Handle(g, e)].st \in {"listening", "expired"}
    /\ \E err \in BOOLEAN :
          LET M == Say(Current, Logs(CleanupLogs + 1, now))
          IN  IF err
              THEN Install(onConfirmation(
                      [M EXCEPT !.subs[Handle(g, e)] =
                                    [@ EXCEPT !.st = "errored", !.calls = @ + 1]],
                      g, closure[g],
                      [endpointName |-> e, confirmedAt |-> now, slot |-> MaxSlot,
                       blockTime |-> NullNum, error |-> "remote error",
                       status |-> "WS Signature Error"]))
              ELSE Install([Say(M, <<LogEvent(now)>>)
                               EXCEPT !.subs[Handle(g, e)] =
                                   [@ EXCEPT !.st = "resolving",
                                             !.confirmedAt = now,
                                             !.ctxSlot = MaxSlot,
                                             !.earlier = SignalledBefore(g)]])
    /\ UNCHANGED <<closure, localNumberOfTransactionsRef, keyOk, subId, single, pc, transactionsProcessed,
                   numTransactionsToRun, started, rpcInFlight, now, rejected, rs, dispatched>>

(* the lookups are over: final onConfirmation of the notification callback *)
WsResolved(g, e) ==
    /\ subs[Handle(g, e)].st = "resolving"
    /\ \E script \in {LookupsWork, LookupsFail} :
          LET sub == subs[Handle(g, e)]
              res == ResolveDetails(script, sub.ctxSlot, e, sub.confirmedAt)
              M == [Say(Current, Logs(res.logs, now))
                      EXCEPT !.subs[Handle(g, e)] =
                          [@ EXCEPT !.st = "confirmed",
                                    !.calls = @ + 1,
                                    !.slot = res.payload.slot,
                                    !.blockTime = res.payload.blockTime,
                                    !.detailError = res.payload.error]]
          IN  Install(onConfirmation(M, g, closure[g], res.payload))
    /\ UNCHANGED <<closure, localNumberOfTransactionsRef, keyOk, subId, single, pc, transactionsProcessed,
                   numTransactionsToRun, started, rpcInFlight, now, rejected, rs, dispatched>>

(* the setTimeout callback: cleanup(), warn, onConfirmation with status Timeout *)
WsTimeout(g, e) ==
    /\ subs[Handle(g, e)].st \in {"listening", "removed"}
    /\ TimerMayFire(g)
    /\ LET M == [Say(Current, Logs(CleanupLogs + 1, now))
                    EXCEPT !.subs[Handle(g, e)] =
                        [@ EXCEPT !.st = ListenerAfterCleanup(@), !.calls = @ + 1]]
       IN  Install(onConfirmation(M, g, closure[g],
                      [endpointName |-> e, error |-> "timeout", status |-> "Timeout"]))
    /\ UNCHANGED <<closure, localNumberOfTransactionsRef, keyOk, subId, single, pc, transactionsProcessed,
                   numTransactionsToRun, started, rpcInFlight, now, rejected, rs, dispatched>>

(* the send finalizes the running transaction *)
RpcThenFinalizes(s, r, sent) == appReducer(s, Complete)

(* .then(rpcResult => { }) of the send to endpoint r: the body is empty *)
RpcThen(s, r, sent) == s

(* sendTransactionToRpc settles (it never rejects): sendRawTransaction
   returned a signature or threw, one console line either way, then the .then *)
RpcSettles(g, r) ==
    /\ <<g, r>> \in rpcInFlight
    /\ rpcInFlight' = rpcInFlight \ {<<g, r>>}
    /\ \E sent \in BOOLEAN :
          state' = RpcThen(Dispatch(state, <<LogEvent(now)>>), r, sent)
    /\ UNCHANGED <<closure, firstWsConfirmedRef, activeSubscriptions,
                   localNumberOfTransactionsRef, keyOk, subId, single, pc, transactionsProcessed,
                   numTransactionsToRun, started, subs, now, wins, removeCalls,
                   rejected, rs, dispatched>>

----------------------------------------------------------------------------
(* src/App.jsx : the page that sends one transaction per click, with the
   reducer it dispatches to (PROCESS_START, PROCESS_COMPLETE) and the
   subscription helper of its solanaUtils.js.  All of it lives in the
   record `single`; globalStatus keeps a short tag of each message. *)

MaxClicks == 2         \* clicks on Send Transaction over the lifetime of the page
Clicks == 1..MaxClicks
ClickHandles == Clicks \X WsNames

singleInitialState ==
    [ isLoading |-> FALSE,
      isComplete |-> FALSE,
      globalStatus |-> "Idle",
      firstWsConfirmedAt |-> NullNum,
      rpcSendResults |-> <<>>,
      wsConfirmationResults |-> <<>>,
      globalError |-> Null ]

singleStart(s) ==
    [s EXCEPT !.isLoading = TRUE,
              !.isComplete = FALSE,
              !.globalStatus = "Initializing",
              !.firstWsConfirmedAt = NullNum,
              !.rpcSendResults = <<>>,
              !.wsConfirmationResults = <<>>,
              !.globalError = Null]

(* PROCESS_COMPLETE *)
singleComplete(s) ==
    [s EXCEPT !.isLoading = FALSE, !.globalStatus = "Process Complete.", !.isComplete = TRUE]

(* PROCESS_ERROR *)
singleError(s) ==
    [s EXCEPT !.isLoading = FALSE, !.globalStatus = "Error", !.globalError = "critical",
              !.isComplete = TRUE]

(* r.status && ... *)
HasStatus(r) == "status" \in DOMAIN r

(* results.filter(r => r.status && r.status !== ...).length === total *)
AllResultsIn(results, pending, total) ==
    Cardinality({i \in 1..Len(results) :
                    HasStatus(results[i]) /\ results[i].status \notin pending}) = total

(* the state after construction *)
singleInit ==
    [ state |-> singleInitialState,
      closure |-> [g \in Clicks |-> singleInitialState],
      firstWsConfirmedRef |-> FALSE,
      activeSubscriptions |-> {},
      pc |-> "idle",
      clicks |-> 0,
      subs |-> [h \in ClickHandles |-> "none"],
      rpcPromises |-> [r \in RpcNames |-> "none"],
      completes |-> [g \in Clicks |-> 0] ]

(* the callback handed to subscribeToSignatureConfirmation by click g; the
   helper reports { endpointName, status, error, ... }, without a name, and
   `state` is the object of the render in which the button was clicked.
   SET_FIRST_WS_CONFIRMED_AT stores payload.timestamp of a number. *)
singleOnConfirmation(S, g, confirmationResult) ==
    LET cl == S.closure[g]
        first == confirmationResult.error = Null /\ ~S.firstWsConfirmedRef
        allWsResultsIn == AllResultsIn(cl.wsConfirmationResults, {"Subscribing..."}, Len(WsUrls))
        allRpcResultsIn == AllResultsIn(cl.rpcSendResults, {"Sending..."}, Len(RpcUrls))
        s1 == [S.state EXCEPT !.wsConfirmationResults = UpdateResult(@, confirmationResult)]
        s2 == IF first THEN [s1 EXCEPT !.firstWsConfirmedAt = NullNum] ELSE s1
        s3 == IF allWsResultsIn
              THEN IF allRpcResultsIn THEN singleComplete(s2)
                   ELSE [s2 EXCEPT !.globalStatus = "Awaiting RPC"]
              ELSE s2
    IN  [S EXCEPT !.state = s3,
                  !.firstWsConfirmedRef = @ \/ first,
                  !.completes[g] = IF allWsResultsIn /\ allRpcResultsIn THEN @ + 1 ELSE @]

(* useEffect on state.isLoading: the ref is reset when loading ends *)
singleEffect(old, S) ==
    IF old.state.isLoading /\ ~S.state.isLoading
    THEN [S EXCEPT !.firstWsConfirmedRef = FALSE]
    ELSE S

(* wsUrls.map: the placeholder record, then connection.onSignature; when it
   throws, the helper reports the error through the callback at once *)
RECURSIVE singleSubscribe(_, _, _, _)
singleSubscribe(S, g, i, failing) ==
    IF i > Len(WsUrls) THEN S
    ELSE LET e == WsUrls[i]
             S1 == [S EXCEPT !.state.wsConfirmationResults =
                                UpdateResult(@, [name |-> e, status |-> "Subscribing..."])]
             S2 == IF e \in failing
                   THEN singleOnConfirmation([S1 EXCEPT !.subs[<<g, e>>] = "failed"], g,
                            [endpointName |-> e, status |-> "WS Subscription Error",
                             error |-> "error"])
                   ELSE [S1 EXCEPT !.subs[<<g, e>>] = "listening"]
         IN  singleSubscribe(S2, g, i + 1, failing)

(* the .then / .catch of each subscription promise *)
RECURSIVE singleSubscribed(_, _, _)
singleSubscribed(S, g, i) ==
    IF i > Len(WsUrls) THEN S
    ELSE LET e == WsUrls[i]
             S1 == IF S.subs[<<g, e>>] = "failed"
                   THEN [S EXCEPT !.state.wsConfirmationResults =
                                     UpdateResult(@, [name |-> e, status |-> "WS Sub Error",
                                                      error |-> "error"])]
                   ELSE [S EXCEPT !.activeSubscriptions = @ \cup {<<g, e>>},
                                  !.state.wsConfirmationResults =
                                     UpdateResult(@, [name |-> e,
                                                      status |-> "Subscribed, Awaiting Confirmation"])]
         IN  singleSubscribed(S1, g, i + 1)

(* rpcUrls.map: the placeholder record and the send *)
RECURSIVE singleSend(_, _)
singleSend(S, i) ==
    IF i > Len(RpcUrls) THEN S
    ELSE singleSend([S EXCEPT !.state.rpcSendResults =
                                 UpdateResult(@, [name |-> RpcUrls[i], status |-> "Sending..."]),
                              !.rpcPromises[RpcUrls[i]] = "pending"], i + 1)

(* rpcSendResultsRaw.forEach: one record per settled send *)
RECURSIVE singleRecordSends(_, _)
singleRecordSends(S, i) ==
    IF i > Len(RpcUrls) THEN S
    ELSE singleRecordSends(
            [S EXCEPT !.state.rpcSendResults =
                UpdateResult(@, [name |-> RpcUrls[i],
                                 status |-> IF S.rpcPromises[RpcUrls[i]] = "sent"
                                            THEN "RPC Sent" ELSE "RPC Error"])], i + 1)

(* the check after the sends, on the state of the clicked render *)
singleAfterSends(S, g) ==
    LET allWsResultsIn == AllResultsIn(S.closure[g].wsConfirmationResults,
                              {"Subscribing...", "Subscribed, Awaiting Confirmation"}, Len(WsUrls))
    IN  IF allWsResultsIn
        THEN [S EXCEPT !.state = singleComplete(@), !.completes[g] = @ + 1, !.pc = "idle"]
        ELSE [S EXCEPT !.state.globalStatus = "Awaiting WS", !.pc = "idle"]

(* a click on Send Transaction, up to the first await; the button is
   disabled while state.isLoading *)
singleHandleSendTransaction ==
    /\ ~single.state.isLoading
    /\ single.clicks < MaxClicks
    /\ LET g == single.clicks + 1
           S1 == [single EXCEPT
                     !.clicks = g,
                     !.closure[g] = single.state,
                     !.state = singleStart(@),
                     !.firstWsConfirmedRef = FALSE,
                     !.subs = [h \in ClickHandles |->
                                 IF h \in single.activeSubscriptions /\ single.subs[h] = "listening"
                                 THEN "removed" ELSE single.subs[h]],
                     !.activeSubscriptions = {},
                     !.rpcPromises = [r \in RpcNames |-> "none"]]
       IN  single' = IF keyOk
                     THEN [S1 EXCEPT !.pc = "creating"]
                     ELSE [S1 EXCEPT !.state = singleError(@), !.pc = "idle"]
    /\ UNCHANGED flowVars

(* createSimpleTransferTransaction rejects: the catch block *)
singleCreationFails ==
    /\ single.pc = "creating"
    /\ single' = singleEffect(single, [single EXCEPT !.state = singleError(@), !.pc = "idle"])
    /\ UNCHANGED flowVars

(* the transaction is created: subscriptions, their promises, the sends *)
singleCreationSucceeds ==
    /\ single.pc = "creating"
    /\ \E failing \in SUBSET WsNames :
          LET g == single.clicks
              S1 == [single EXCEPT !.state.globalStatus = "Initiating WS"]
              S2 == singleSubscribed(singleSubscribe(S1, g, 1, failing), g, 1)
              S3 == singleSend([S2 EXCEPT !.state.globalStatus = "Sending"], 1)
          IN  single' = singleEffect(single, [S3 EXCEPT !.pc = "sending"])
    /\ UNCHANGED flowVars

(* one sendRawTransaction settles; after the last one the handler goes on *)
singleRpcSettles(r) ==
    /\ single.pc = "sending"
    /\ single.rpcPromises[r] = "pending"
    /\ \E outcome \in {"sent", "error"} :
          LET S1 == [single EXCEPT !.rpcPromises[r] = outcome]
          IN  single' = IF \A q \in RpcNames : S1.rpcPromises[q] # "pending"
                        THEN singleEffect(single,
                                singleAfterSends(singleRecordSends(S1, 1), single.clicks))
                        ELSE S1
    /\ UNCHANGED flowVars

(* the signature notification of endpoint e, click g *)
singleWsNotification(g, e) ==
    /\ single.subs[<<g, e>>] = "listening"
    /\ \E err \in BOOLEAN :
          single' = singleEffect(single,
                       singleOnConfirmation(
                          [single EXCEPT !.subs[<<g, e>>] = IF err THEN "errored" ELSE "confirmed"],
                          g,
                          [endpointName |-> e,
                           status |-> IF err THEN "WS Error" ELSE "Confirmed",
                           error |-> IF err THEN "error" ELSE Null]))
    /\ UNCHANGED flowVars

(* the timer of the subscription fires; it outlives a listener the page removed *)
singleWsTimeout(g, e) ==
    /\ single.subs[<<g, e>>] \in {"listening", "removed"}
    /\ single' = singleEffect(single,
                    singleOnConfirmation([single EXCEPT !.subs[<<g, e>>] = "timedout"], g,
                       [endpointName |-> e, status |-> "Timeout", error |-> "error"]))
    /\ UNCHANGED flowVars

----------------------------------------------------------------------------
(* Specifications *)

(* the state after construction, the subscription id being one of ids *)
InitWith(ids) ==
    /\ state = initialState
    /\ closure = [g \in Attempts |->
                    [isLoading |-> FALSE, isComplete |-> FALSE, allProcessesComplete |-> FALSE]]
    /\ firstWsConfirmedRef = FALSE
    /\ activeSubscriptions = <<>>
    /\ localNumberOfTransactionsRef = 1
    /\ keyOk \in BOOLEAN
    /\ subId \in ids
    /\ pc = "idle"
    /\ transactionsProcessed = 0
    /\ numTransactionsToRun = 0
    /\ started = 0
    /\ subs = [h \in Attempts \X WsNames |-> noSub]
    /\ rpcInFlight = {}
    /\ now = 1
    /\ wins = [g \in Attempts |-> {}]
    /\ removeCalls = {}
    /\ rejected = {}
    /\ rs = rsIdle
    /\ dispatched = 0
    /\ single = singleInit

(* the library numbers subscriptions from 1 *)
Init == InitWith({id \in SubIds : Truthy(id)})

Next ==
    \/ handleNumberOfTransactionsChange
    \/ handleSendTransaction
    \/ NextTransaction
    \/ CreationFails
    \/ CreationSucceeds
    \/ \E g \in Attempts, e \in WsNames : WsNotification(g, e)
    \/ \E g \in Attempts, e \in WsNames : WsResolved(g, e)
    \/ \E g \in Attempts, e \in WsNames : WsTimeout(g, e)
    \/ \E g \in Attempts, r \in RpcNames : RpcSettles(g, r)

Spec == Init /\ [][Next]_vars

(* time passes between two tasks of the event loop *)
Tick ==
    /\ now < MaxNow
    /\ now' = now + 1
    /\ UNCHANGED <<state, closure, firstWsConfirmedRef, activeSubscriptions,
                   localNumberOfTransactionsRef, keyOk, subId, single, pc, transactionsProcessed,
                   numTransactionsToRun, started, subs, rpcInFlight, wins,
                   removeCalls, rejected, rs, dispatched>>

(* the program under a running clock; the settling of the sends, which only
   appends console lines stamped Date.now(), is left out *)
NextClock ==
    \/ Tick
    \/ handleNumberOfTransactionsChange
    \/ handleSendTransaction
    \/ NextTransaction
    \/ CreationFails
    \/ CreationSucceeds
    \/ \E g \in Attempts, e \in WsNames : WsNotification(g, e)
    \/ \E g \in Attempts, e \in WsNames : WsResolved(g, e)
    \/ \E g \in Attempts, e \in WsNames : WsTimeout(g, e)

SpecClock == Init /\ [][NextClock]_vars

(* the detail lookup on its own, over all lookup scripts *)
NextResolver == ResolverSignal \/ ResolverFinish \/ ResolverReset

SpecResolver == Init /\ [][NextResolver]_vars

(* the reducer on its own: the actions that App.jsx dispatches and that have a
   case in the reducer, in any order, with the payloads of the dispatch sites
   (LOG_EVENT is left out) *)
restVars == <<closure, firstWsConfirmedRef, activeSubscriptions,
              localNumberOfTransactionsRef, keyOk, subId, single, pc, transactionsProcessed,
              numTransactionsToRun, started, subs, rpcInFlight, now, wins,
              removeCalls, rejected, rs>>

(* payloads of UPDATE_RPC_SEND_RESULT *)
RpcPatches ==
    {[name |-> r, status |-> "Sending...", sentAt |-> now] : r \in RpcNames}
    \cup {[name |-> r, status |-> "RPC Critical Error", error |-> "send failed",
           sentAt |-> now] : r \in RpcNames}

(* payloads of UPDATE_WS_CONFIRMATION_RESULT: those of executeSingleTransaction
   carry name, those of subscribeToSignatureConfirmation carry endpointName *)
WsPatches ==
    {[name |-> e, status |-> "Subscribing..."] : e \in WsNames}
    \cup {[name |-> e, status |-> "Subscribed, Awaiting Confirmation"] : e \in WsNames}
    \cup {[name |-> e, status |-> "WS Sub Setup Error", error |-> "subscribe failed"] :
             e \in WsNames}
    \cup {[endpointName |-> e, error |-> "timeout", status |-> "Timeout"] : e \in WsNames}

(* one more action has been dispatched *)
Dispatched == dispatched < MaxDispatches /\ dispatched' = dispatched + 1

DispatchSetNumberOfTransactions ==
    /\ \E n \in 1..MaxTx :
          state' = appReducer(state, [type |-> "SET_NUMBER_OF_TRANSACTIONS", payload |-> n])
    /\ Dispatched
    /\ UNCHANGED restVars

DispatchProcessStartAll ==
    /\ state' = appReducer(state, [type |-> "PROCESS_START_ALL"])
    /\ Dispatched
    /\ UNCHANGED restVars

DispatchProcessStartSingleTx ==
    /\ state' = appReducer(state, [type |-> "PROCESS_START_SINGLE_TX"])
    /\ Dispatched
    /\ UNCHANGED restVars

DispatchSetTxInfo ==
    /\ \E sig \in Attempts :
          state' = appReducer(state, [type |-> "SET_TX_INFO", signature |-> sig,
                                      createdAt |-> now])
    /\ Dispatched
    /\ UNCHANGED restVars

DispatchUpdateRpcSendResult ==
    /\ \E p \in RpcPatches : state' = appReducer(state, UpdateRpc(p))
    /\ Dispatched
    /\ UNCHANGED restVars

DispatchUpdateWsConfirmationResult ==
    /\ \E p \in WsPatches : state' = appReducer(state, UpdateWs(p))
    /\ Dispatched
    /\ UNCHANGED restVars

DispatchSetFirstWsConfirmedAt ==
    /\ \E e \in WsNames :
          state' = appReducer(state, [type |-> "SET_FIRST_WS_CONFIRMED_AT",
                                      timestamp |-> now, endpointName |-> e])
    /\ Dispatched
    /\ UNCHANGED restVars

DispatchProcessSingleTxComplete ==
    /\ state' = appReducer(state, Complete)
    /\ Dispatched
    /\ UNCHANGED restVars

DispatchProcessError ==
    /\ state' = appReducer(state, [type |-> "PROCESS_ERROR", message |-> "setup failed"])
    /\ Dispatched
    /\ UNCHANGED restVars

NextReducer ==
    \/ DispatchSetNumberOfTransactions
    \/ DispatchProcessStartAll
    \/ DispatchProcessStartSingleTx
    \/ DispatchSetTxInfo
    \/ DispatchUpdateRpcSendResult
    \/ DispatchUpdateWsConfirmationResult
    \/ DispatchSetFirstWsConfirmedAt
    \/ DispatchProcessSingleTxComplete
    \/ DispatchProcessError

SpecReducer == Init /\ [][NextReducer]_vars

(* the subscriptions of single-transaction runs, with a library that may
   number subscriptions from 0 *)
InitSubscription == InitWith(SubIds)

NextSubscription ==
    \/ handleSendTransaction
    \/ CreationSucceeds
    \/ \E g \in Attempts, e \in WsNames : WsNotification(g, e)
    \/ \E g \in Attempts, e \in WsNames : WsResolved(g, e)
    \/ \E g \in Attempts, e \in WsNames : WsTimeout(g, e)

SpecSubscription == InitSubscription /\ [][NextSubscription]_vars

(* the page that sends one transaction per click *)
NextSingle ==
    \/ singleHandleSendTransaction
    \/ singleCreationFails
    \/ singleCreationSucceeds
    \/ \E r \in RpcNames : singleRpcSettles(r)
    \/ \E g \in Clicks, e \in WsNames : singleWsNotification(g, e)
    \/ \E g \in Clicks, e \in WsNames : singleWsTimeout(g, e)

SpecSingle == Init /\ [][NextSingle]_vars

----------------------------------------------------------------------------
(* Properties *)

Recorded(g, e) == subs[Handle(g, e)].st \notin {"none", "failed"}
RaceSetUp(g) == \E e \in WsNames : subs[Handle(g, e)].st # "none"
Reported(h) == subs[h].st \in {"none", "failed", "confirmed", "errored", "timedout"}

(* the run is over and nothing is pending any more *)
Quiescent ==
    /\ pc = "idle"
    /\ started > 0
    /\ rpcInFlight = {}
    /\ \A h \in DOMAIN subs : Reported(h)

(* attempts started by the latest run of handleSendTransaction *)
RunCompleted == transactionsProcessed = numTransactionsToRun
AttemptsOfRun == IF RunCompleted THEN transactionsProcessed ELSE transactionsProcessed + 1
FirstOfRun == started - AttemptsOfRun + 1
SetupFailed(g) == g <= started /\ ~RaceSetUp(g)
Records == state.allTransactionResults

(* C1: for one attempt, at most one endpoint's callback performs the winning
   completion *)
C1_SingleWinner == \A g \in Attempts : Cardinality(wins[g]) <= 1

(* C2: an attempt none of whose WS endpoints confirmed is still finalized: once
   everything has settled a record of the attempt is in allTransactionResults *)
C2_ExhaustedFinalized ==
    Quiescent =>
        \A g \in FirstOfRun..started :
            (RaceSetUp(g) /\ \A e \in WsNames :
                                subs[Handle(g, e)].st \in {"failed", "errored", "timedout"})
            => \E i \in 1..Len(Records) : Records[i].signature = g

(* C3: attempt i+1 is never started before the records of the attempts before
   it have been appended *)
C3_StrictOrdering ==
    pc = "creating" => Len(Records) >= transactionsProcessed

(* C4: once the callback of an endpoint of attempt g has won, every handle
   recorded for attempt g has had removeSignatureListener called on it and no
   handle of attempt g is in activeSubscriptions; the winning step leaves
   activeSubscriptions empty *)
C4_State ==
    \A g \in Attempts :
        wins[g] # {} =>
            \A e \in WsNames :
                /\ Recorded(g, e) => Handle(g, e) \in removeCalls
                /\ Handle(g, e) \notin HandlesOf(activeSubscriptions)

C4_CleanupComplete ==
    [][ /\ C4_State'
        /\ (wins' # wins =>
               /\ activeSubscriptions' = <<>>
               /\ HandlesOf(activeSubscriptions) \subseteq removeCalls') ]_vars

(* a race was won while a loser was still listening, and all is cleaned up *)
C4_Witness ==
    \E g \in Attempts :
        /\ wins[g] # {}
        /\ \A e \in WsNames : Recorded(g, e) /\ Handle(g, e) \in removeCalls
        /\ \E e \in WsNames : subs[Handle(g, e)].st = "removed"
        /\ activeSubscriptions = <<>>

(* C5: a success notification delivered to an attempt whose race is already
   won changes nothing *)
DuplicateSuccess(g, e) ==
    /\ g = started
    /\ wins[g] # {}
    /\ firstWsConfirmedRef
    /\ subs[Handle(g, e)].st = "resolving"
    /\ subs'[Handle(g, e)].st = "confirmed"

C5_DuplicateIsNoOp ==
    [][ \A g \in Attempts, e \in WsNames :
          DuplicateSuccess(g, e) =>
              UNCHANGED <<state, firstWsConfirmedRef, activeSubscriptions, removeCalls>> ]_vars

(* C6: a run in which attempts failed during setup and continue was chosen
   ends with one record per attempt, in order, the failed ones marked failed *)
C6_ContinueYieldsAll ==
    (Quiescent /\ RunCompleted /\ \E g \in FirstOfRun..started : SetupFailed(g)) =>
        /\ Len(Records) = numTransactionsToRun
        /\ \A i \in 1..Len(Records) :
              (Records[i].error # Null) <=> SetupFailed(FirstOfRun + i - 1)

(* C7: a run aborted after the setup failure of attempt k ends with exactly k
   records, the last one marked failed *)
C7_AbortYieldsK ==
    (Quiescent /\ ~RunCompleted) =>
        /\ Len(Records) = transactionsProcessed + 1
        /\ Records[Len(Records)].error # Null

(* C8: every attempt that was started has exactly one record *)
C8_OneRecordPerAttempt ==
    Quiescent => Len(Records) = AttemptsOfRun

(* the first lookup that returns the transaction with a slot *)
ReturnsSlot(o) == o.kind = "details" /\ o.slot # NullNum
FirstSuccess(script, k) ==
    /\ ReturnsSlot(script[k])
    /\ \A j \in 1..(k - 1) : ~ReturnsSlot(script[j])

(* C9: when the lookup first succeeds on retry k, the result carries that
   lookup's slot and blockTime, no error and status Confirmed, and no lookup
   follows retry k *)
C9_FirstSuccessUsed ==
    rs.phase = "done" =>
        \A k \in 1..maxRetries :
            FirstSuccess(rs.script, k) =>
                /\ rs.result.payload.slot = rs.script[k].slot
                /\ rs.result.payload.blockTime = rs.script[k].blockTime
                /\ rs.result.payload.error = Null
                /\ rs.result.payload.status = "Confirmed"
                /\ rs.result.lookups = k

(* C10: when all lookups fail, the result has the WS slot, blockTime null and
   an error *)
C10_FallbackToWsSlot ==
    (rs.phase = "done" /\ \A k \in 1..maxRetries : ~ReturnsSlot(rs.script[k])) =>
        /\ rs.result.payload.slot = rs.ctxSlot
        /\ rs.result.payload.blockTime = NullNum
        /\ rs.result.payload.error # Null

(* the final onConfirmation of endpoint e of attempt g is delivered *)
Resolves(g, e) ==
    /\ subs[Handle(g, e)].st = "resolving"
    /\ subs'[Handle(g, e)].st = "confirmed"

(* C11: when endpoint e delivered a successful signal and every lookup then
   failed, and no endpoint has won the running attempt before, the attempt is
   finalized as won by e: firstConfirmedByEndpointName = e and
   firstWsConfirmedAt is set *)
C11_LookupFailureStillWins ==
    [][ \A g \in Attempts, e \in WsNames :
          ( /\ g = started
            /\ wins[g] = {}
            /\ ~firstWsConfirmedRef
            /\ Resolves(g, e)
            /\ subs'[Handle(g, e)].detailError # Null )
          => /\ e \in wins'[g]
             /\ state'.firstConfirmedByEndpointName = e
             /\ state'.firstWsConfirmedAt # NullNum ]_vars

(* the send of attempt g to RPC endpoint r settles *)
Settles(g, r) == <<g, r>> \in rpcInFlight /\ <<g, r>> \notin rpcInFlight'

(* C12: as soon as the submit call to an RPC endpoint settles, the entry of
   that endpoint in rpcSendResults goes from 'Sending...' to a Sent or an
   Error status, whatever happened to the other endpoints *)
C12_RpcResultRecorded ==
    [][ \A g \in Attempts, r \in RpcNames :
          (g = started /\ Settles(g, r)) =>
              LET i == FindIndex(state'.rpcSendResults, r)
              IN  /\ i > 0
                  /\ state'.rpcSendResults[i].status \in {"Sent", "Error"} ]_vars

(* the reducer state apart from the event log *)
WithoutLog(s) == [s EXCEPT !.eventLog = <<>>]

(* C13: RPC dispatch and the WS race are independent.  A settling send (sent
   or failed) changes nothing of the race: not the guard, the listeners, the
   winners, the records, the position of the loop, nor any field of the
   reducer state but the event log; a step that finalizes or wins an attempt
   takes no send out of flight; and executeSingleTransaction returns to the
   loop with its sends still in flight *)
C13_RpcIndependent ==
    [][ /\ \A g \in Attempts, r \in RpcNames :
              Settles(g, r) =>
                 /\ UNCHANGED <<firstWsConfirmedRef, activeSubscriptions, subs, wins,
                                removeCalls, pc, transactionsProcessed, started, closure>>
                 /\ WithoutLog(state') = WithoutLog(state)
        /\ (wins' # wins \/ Records' # Records) => rpcInFlight \subseteq rpcInFlight'
        /\ (pc = "creating" /\ pc' # "creating" /\ subs' # subs) =>
               \A r \in RpcNames : <<started, r>> \in rpcInFlight' ]_vars

(* an attempt is won while one of its sends has settled and another has not *)
C13_Witness ==
    \E g \in Attempts :
        /\ wins[g] # {}
        /\ \E r \in RpcNames : <<g, r>> \in rpcInFlight
        /\ \E r \in RpcNames : <<g, r>> \notin rpcInFlight
        /\ Len(Records) > 0

(* endpoint e completes the race of attempt g in this step *)
Wins(g, e) == e \notin wins[g] /\ e \in wins'[g]

(* record r carries value v as detail f of endpoint e: as a field of its own,
   or in the entry of its wsConfirmationResults whose name is e *)
Carries(r, e, f, v) ==
    \/ f \in DOMAIN r /\ r[f] = v
    \/ LET i == FindIndex(r.wsConfirmationResults, e)
       IN  /\ i > 0
           /\ f \in DOMAIN r.wsConfirmationResults[i]
           /\ r.wsConfirmationResults[i][f] = v

(* C14: the record finalized by the win of endpoint e names e as
   firstConfirmedByEndpointName and carries the slot and blockTime resolved
   for e *)
C14_RecordCarriesDetails ==
    [][ \A g \in Attempts, e \in WsNames :
          (g = started /\ Wins(g, e)) =>
              LET r == Records'[Len(Records')]
              IN  /\ Len(Records') = Len(Records) + 1
                  /\ r.signature = g
                  /\ r.firstConfirmedByEndpointName = e
                  /\ Carries(r, e, "slot", subs'[Handle(g, e)].slot)
                  /\ Carries(r, e, "blockTime", subs'[Handle(g, e)].blockTime) ]_vars

(* the subscription of endpoint e of attempt g reports: onConfirmation is
   called with a confirmation, a remote error or a timeout *)
Reports(g, e) ==
    /\ subs[Handle(g, e)].st \in {"listening", "removed", "resolving"}
    /\ subs'[Handle(g, e)].st \in {"confirmed", "errored", "timedout"}

StatusesOf(st) ==
    CASE st = "confirmed" -> {"Confirmed", "RPC GetTransaction Error"}
      [] st = "errored" -> {"WS Signature Error"}
      [] st = "timedout" -> {"Timeout"}
      [] OTHER -> {}

(* C15: when endpoint e of the running attempt reports while the race is not
   won, the wsConfirmationResults entry whose name is e takes the reported
   status, the entries of the other endpoints stay as they are and no entry is
   added *)
C15_EntryOfEndpointUpdated ==
    [][ \A g \in Attempts, e \in WsNames :
          (g = started /\ ~firstWsConfirmedRef /\ Reports(g, e)) =>
              LET old == state.wsConfirmationResults
                  new == state'.wsConfirmationResults
                  i == FindIndex(new, e)
              IN  /\ i > 0
                  /\ new[i].status \in StatusesOf(subs'[Handle(g, e)].st)
                  /\ Len(new) = Len(old)
                  /\ \A j \in 1..Len(old) : j # i => new[j] = old[j] ]_vars

(* C16: executeSingleTransaction throws, and PROCESS_ERROR is dispatched, only
   for setup errors: an attempt that threw had not requested any subscription
   or send, no failure of an endpoint (subscribe failure, remote error,
   timeout, lookup failure, failed send) marks the attempt failed, and every
   attempt that ended before its race was set up did throw *)
C16_OnlySetupErrorsReject ==
    /\ \A g \in rejected : ~RaceSetUp(g) /\ \A r \in RpcNames : <<g, r>> \notin rpcInFlight
    /\ \A g \in Attempts :
          RaceSetUp(g) =>
              \A i \in 1..Len(Records) : Records[i].signature = g => Records[i].error = Null
    /\ state.globalError # Null => started \in rejected
    /\ \A g \in 1..started :
          (~RaceSetUp(g) /\ ~(g = started /\ pc = "creating")) => g \in rejected

(* endpoint failures of every kind have happened in attempts that did not throw *)
C16_Witness ==
    /\ Quiescent
    /\ rejected = {}
    /\ subs[Handle(1, "C")].st = "failed"
    /\ subs[Handle(1, "D")].st = "timedout"
    /\ subs[Handle(2, "C")].st = "errored"
    /\ subs[Handle(2, "D")].st = "confirmed"
    /\ subs[Handle(2, "D")].detailError # Null
    /\ state.globalError = Null

(* C17: once the loop of handleSendTransaction has ended and every callback
   has reported, the state is Done: isLoading is false and
   allProcessesComplete is true *)
C17_DoneReached ==
    Quiescent => (~state.isLoading /\ state.allProcessesComplete)

(* C18: the endpoint recorded as the winner of an attempt is the one whose
   success notification was delivered first: no endpoint wins whose
   notification arrived after that of another endpoint of the attempt *)
C18_FirstNotifiedWins ==
    \A g \in Attempts : \A d \in wins[g] : subs[Handle(g, d)].earlier = {}

(* endpoint e of attempt g reports a remote error or its timeout *)
ReportsFailure(g, e) ==
    /\ subs[Handle(g, e)].st \in {"listening", "removed"}
    /\ subs'[Handle(g, e)].st \in {"errored", "timedout"}

(* some entry of the list holds what endpoint e reported *)
HoldsOutcome(list, e, st) ==
    \E i \in 1..Len(list) :
        /\ "endpointName" \in DOMAIN list[i]
        /\ list[i].endpointName = e
        /\ list[i].status \in StatusesOf(st)
        /\ list[i].error # Null

(* C19: a remote error or a timeout of an endpoint, while the race is not won,
   is recorded as that endpoint's outcome and does nothing else: no record is
   appended, the guard stays unset, nobody wins, no listener is removed by the
   coordinator, no other subscription changes and the loop is not touched *)
C19_FailureDoesNotResolve ==
    [][ \A g \in Attempts, e \in WsNames :
          (~firstWsConfirmedRef /\ ReportsFailure(g, e)) =>
              /\ HoldsOutcome(state'.wsConfirmationResults, e, subs'[Handle(g, e)].st)
              /\ Records' = Records
              /\ state'.isComplete = state.isComplete
              /\ state'.firstConfirmedByEndpointName = state.firstConfirmedByEndpointName
              /\ UNCHANGED <<firstWsConfirmedRef, wins, activeSubscriptions, removeCalls,
                             pc, transactionsProcessed, rpcInFlight>>
              /\ \A h \in DOMAIN subs : h # Handle(g, e) => subs'[h] = subs[h] ]_vars

(* an endpoint reported a remote error and the other endpoint of the attempt
   won afterwards (a listener removed by a win cannot report a remote error) *)
C19_Witness ==
    \E e \in WsNames : \E d \in WsNames \ {e} :
        /\ started = 1
        /\ subs[Handle(1, e)].st = "errored"
        /\ subs[Handle(1, d)].st = "confirmed"
        /\ wins[1] = {d}
        /\ state.firstConfirmedByEndpointName = d
        /\ Len(Records) = 1

(* C20: the event log is ordered by timestamp: no entry has a timestamp
   smaller than that of the entry appended before it *)
C20_LogOrdered ==
    \A i \in 1..(Len(state.eventLog) - 1) : state.eventLog[i] <= state.eventLog[i + 1]

(* C21: a record appended to allTransactionResults never changes: a step
   either empties the history (PROCESS_START_ALL) or leaves every record that
   was there as it was *)
C21_RecordsImmutable ==
    [][ \/ Records' = <<>>
        \/ /\ Len(Records') >= Len(Records)
           /\ \A i \in 1..Len(Records) : Records'[i] = Records[i] ]_vars

(* C22: the listener of a subscription that is still waiting is removed by the
   coordinator only in a step in which its own attempt's race is won *)
C22_OnlyOwnWinUnsubscribes ==
    [][ \A g \in Attempts, e \in WsNames :
          ( /\ subs[Handle(g, e)].st = "listening"
            /\ subs'[Handle(g, e)].st = "removed" )
          => wins'[g] # wins[g] ]_vars


(* every endpoint of attempt g has reported and none of them confirmed *)
Exhausted(g) ==
    /\ RaceSetUp(g)
    /\ wins[g] = {}
    /\ \A e \in WsNames : subs[Handle(g, e)].st \in {"failed", "errored", "timedout"}

(* C23: an attempt that ended without a winner holds no subscription handle in
   activeSubscriptions any more, and whenever a record is appended
   activeSubscriptions is empty *)
C23_FallbackCleansUp ==
    [][ /\ \A g \in Attempts :
              Exhausted(g)' =>
                  \A e \in WsNames : Handle(g, e) \notin HandlesOf(activeSubscriptions')
        /\ (Len(Records') > Len(Records) => activeSubscriptions' = <<>>) ]_vars


(* record r is the record of attempt g, finalized without a confirmation and
   without a failure, holding an entry for every WS endpoint *)
FinalizedUnconfirmed(r, g) ==
    /\ r.signature = g
    /\ r.error = Null
    /\ r.firstWsConfirmedAt = Null
    /\ r.firstConfirmedByEndpointName = Null
    /\ \A e \in WsNames :
          \E j \in 1..Len(r.wsConfirmationResults) : NameOf(r.wsConfirmationResults[j]) = e

(* C24: an attempt that ended without a confirmation is finalized as a
   non-failure: it did not ask for a continue/abort decision and, once all has
   settled, its record has no error and no first confirmation and holds the
   statuses of all its endpoints *)
C24_ExhaustedIsNotFailure ==
    \A g \in Attempts :
        Exhausted(g) =>
            /\ g \notin rejected
            /\ Quiescent => \E i \in 1..Len(Records) : FinalizedUnconfirmed(Records[i], g)

(* C25: onConfirmation is invoked at most once for each call of
   subscribeToSignatureConfirmation *)
C25_AtMostOneReport == \A h \in DOMAIN subs : subs[h].calls <= 1


(* C26: after a successful WS signal the detail resolver ends with one call of
   onConfirmation, having made between 1 and maxRetries lookups, stopped at
   the first lookup that returned a slot, and waited once between every two
   consecutive lookups and at no other time *)
C26_ResolverBounded ==
    rs.phase = "done" =>
        /\ rs.result.lookups \in 1..maxRetries
        /\ rs.result.waits = rs.result.lookups - 1
        /\ \A k \in 1..(rs.result.lookups - 1) : ~LookupOk(rs.script[k])
        /\ (rs.result.lookups < maxRetries => LookupOk(rs.script[rs.result.lookups]))
        /\ rs.result.payload.status \in {"Confirmed", "RPC GetTransaction Error"}

(* all lookups were made, some threw and some returned nothing *)
C26_Witness ==
    /\ rs.phase = "done"
    /\ rs.result.lookups = maxRetries
    /\ rs.result.waits = maxRetries - 1
    /\ \E k \in 1..maxRetries : rs.script[k] = Throws
    /\ \E k \in 1..maxRetries : rs.script[k] = ReturnsNull


(* attempt g gets past the creation of its transaction in this step *)
SetsUpRace(g) == ~RaceSetUp(g) /\ RaceSetUp(g)'

(* C27: the step in which an attempt sets up its race submits the transaction
   once to every configured RPC endpoint, and no other step submits: nothing
   is submitted again after a send has settled, whatever its outcome *)
C27_OneSubmitPerEndpoint ==
    [][ \A g \in Attempts :
          /\ SetsUpRace(g) =>
                \A r \in RpcNames : <<g, r>> \in rpcInFlight' \ rpcInFlight
          /\ \A r \in RpcNames :
                <<g, r>> \in rpcInFlight' \ rpcInFlight => SetsUpRace(g) ]_vars

(* the second attempt has submitted to both endpoints while one send of the
   first attempt has settled, the other has not and the first attempt is won *)
C27_Witness ==
    /\ RaceSetUp(2)
    /\ wins[1] # {}
    /\ {<<1, "A">>, <<2, "A">>, <<2, "B">>} \subseteq rpcInFlight
    /\ <<1, "B">> \notin rpcInFlight


(* the list holds an entry named e whose status is one of sts *)
HoldsStatus(list, e, sts) ==
    \E j \in 1..Len(list) : NameOf(list[j]) = e /\ list[j].status \in sts

(* C28: when the subscribe call of endpoint e fails at once, the setup step
   records an error status in the entry of e; the failed subscription has no
   handle in activeSubscriptions, never reports again (its timer is cancelled)
   and does not make the attempt throw *)
C28_SubscribeFailureIsLocal ==
    [][ \A g \in Attempts, e \in WsNames :
          /\ (SetsUpRace(g) /\ subs'[Handle(g, e)].st = "failed") =>
                HoldsStatus(state'.wsConfirmationResults, e,
                            {"WS Sub Setup Error", "WS Subscription Setup Error"})
          /\ subs'[Handle(g, e)].st = "failed" =>
                /\ Handle(g, e) \notin HandlesOf(activeSubscriptions')
                /\ subs'[Handle(g, e)].calls = 1
                /\ g \notin rejected' ]_vars


(* C29: the 2 s sleep is entered only at the end of an attempt that was not
   aborted and is not the last one, it ends only by starting the next
   attempt, an attempt starts either first in its run (from idle, without a
   sleep before it) or out of a sleep, and a run ends without a sleep after its last
   attempt or after an abort *)
C29_DelayOnlyBetweenAttempts ==
    [][ /\ (pc # "sleeping" /\ pc' = "sleeping") =>
              transactionsProcessed' < numTransactionsToRun'
        /\ (pc = "creating" /\ pc' = "sleeping") =>
              transactionsProcessed' = transactionsProcessed + 1
        /\ (pc = "sleeping" /\ pc' # "sleeping") => started' = started + 1
        /\ started' # started =>
              /\ started' = started + 1
              /\ pc \in {"idle", "sleeping"}
        /\ (pc = "idle" /\ pc' = "sleeping") => started' = started + 1
        /\ (pc # "idle" /\ pc' = "idle") =>
              \/ transactionsProcessed' = numTransactionsToRun'
              \/ started' \in rejected' ]_vars

(* the sequencer sleeps between the first and the second attempt of a run *)
C29_Witness ==
    /\ pc = "sleeping"
    /\ RaceSetUp(1)
    /\ transactionsProcessed = 1
    /\ numTransactionsToRun = 2


(* no two entries of the list have the same name *)
OnePerName(list) ==
    \A i, j \in 1..Len(list) : NameOf(list[i]) = NameOf(list[j]) => i = j

(* entry new is entry old with the fields of patch p laid over it *)
MergedInto(old, p, new) ==
    /\ DOMAIN new = DOMAIN old \cup DOMAIN p
    /\ \A f \in DOMAIN p : new[f] = p[f]
    /\ \A f \in DOMAIN old \ DOMAIN p : new[f] = old[f]

(* list new is list old after the update p: appended when the name of p is
   absent, merged into the entry of that name otherwise *)
UpdatedBy(old, p, new) ==
    IF \E i \in 1..Len(old) : NameOf(old[i]) = NameOf(p)
    THEN /\ Len(new) = Len(old)
         /\ \A i \in 1..Len(old) :
               IF NameOf(old[i]) = NameOf(p)
               THEN MergedInto(old[i], p, new[i])
               ELSE new[i] = old[i]
    ELSE new = Append(old, p)

(* C30: each result list holds at most one entry per name, and a step that
   changes a result list without emptying it is an update of that list alone:
   append when the name is absent, shallow merge into the entry of that name
   when it is present, every other entry and the other list as before *)
C30_OneEntryPerName ==
    [][ /\ OnePerName(state'.rpcSendResults)
        /\ OnePerName(state'.wsConfirmationResults)
        /\ (state'.rpcSendResults # state.rpcSendResults /\ state'.rpcSendResults # <<>>) =>
              /\ \E p \in RpcPatches :
                    UpdatedBy(state.rpcSendResults, p, state'.rpcSendResults)
              /\ state'.wsConfirmationResults = state.wsConfirmationResults
        /\ (state'.wsConfirmationResults # state.wsConfirmationResults
               /\ state'.wsConfirmationResults # <<>>) =>
              /\ \E p \in WsPatches :
                    UpdatedBy(state.wsConfirmationResults, p, state'.wsConfirmationResults)
              /\ state'.rpcSendResults = state.rpcSendResults ]_vars

(* the entry of C was created by one update and merged with another, beside
   an entry of another name *)
C30_Witness ==
    /\ dispatched > 0
    /\ Len(state.wsConfirmationResults) >= 2
    /\ \E i \in 1..Len(state.wsConfirmationResults) :
          /\ NameOf(state.wsConfirmationResults[i]) = "C"
          /\ "error" \in DOMAIN state.wsConfirmationResults[i]
          /\ state.wsConfirmationResults[i].status = "Subscribed, Awaiting Confirmation"


(* C31: when executeSingleTransaction of the running attempt reaches its
   fallback condition or its PROCESS_ERROR condition, and when a subscription
   of attempt g calls the notification guard, the isLoading and isComplete the
   guard reads are those of the reducer state at that moment *)
C31_GuardsReadCurrentState ==
    [][ /\ (pc = "creating" /\ pc' # "creating") =>
              /\ closure[started].isLoading = state.isLoading
              /\ closure[started].isComplete = state.isComplete
        /\ \A g \in Attempts, e \in WsNames :
              Reports(g, e) => closure[g].isComplete = state.isComplete ]_vars


(* a subscription of attempt g calls onConfirmation in this step *)
CallsBack(g, e) == subs'[Handle(g, e)].calls > subs[Handle(g, e)].calls

(* C32: a callback of an attempt that is no longer the newest one leaves
   firstWsConfirmedRef and the endpoint results of the newer attempt alone,
   and every record appended by a callback of attempt g carries the signature
   of attempt g *)
C32_AttemptsIsolated ==
    [][ \A g \in Attempts, e \in WsNames :
          (CallsBack(g, e) /\ g <= started) =>
              /\ g < started =>
                    /\ firstWsConfirmedRef' = firstWsConfirmedRef
                    /\ state'.wsConfirmationResults = state.wsConfirmationResults
              /\ \A i \in (Len(Records) + 1)..Len(Records') : Records'[i].signature = g ]_vars


(* C33: allProcessesComplete and isLoading are never true together *)
C33_CompleteMeansNotLoading == ~(state.allProcessesComplete /\ state.isLoading)


(* C34: when an attempt starts, the reducer's currentTransactionIndex equals
   the local counter transactionsProcessed of handleSendTransaction *)
C34_IndexFollowsCounter ==
    [][ (started' # started /\ pc' = "creating") =>
            state'.currentTransactionIndex = transactionsProcessed' ]_vars


(* the second attempt of a run is running after the first one failed in its
   setup and continue was chosen *)
C33_Witness ==
    /\ started = 2
    /\ pc = "creating"
    /\ transactionsProcessed = 1
    /\ 1 \in rejected
    /\ state.isLoading
    /\ ~state.allProcessesComplete


(* C35: once a run has started, currentTransactionIndex lies in
   0..numberOfTransactions - 1 and allTransactionResults holds at most
   numberOfTransactions records *)
C35_IndexAndRecordsBounded ==
    started > 0 =>
        /\ state.currentTransactionIndex \in 0..(state.numberOfTransactions - 1)
        /\ Len(Records) <= state.numberOfTransactions


(* a run of two transactions holds two records and the index has stopped at
   1, one of the completions being that of a late callback of attempt 1 *)
C35_Witness ==
    /\ started = 2
    /\ state.numberOfTransactions = 2
    /\ state.currentTransactionIndex = 1
    /\ Len(Records) = 2
    /\ Cardinality(wins[1]) = 2


(* C36: in every attempt whose race was set up, the subscription of every WS
   endpoint had been requested when the first RPC send was started *)
C36_SubscribeBeforeSend ==
    \A g \in Attempts :
        RaceSetUp(g) => \A e \in WsNames : subs[Handle(g, e)].beforeSend

(* the sends of the second attempt are in flight, one of its subscribe calls
   failed and the other is listening *)
C36_Witness ==
    /\ {<<2, r>> : r \in RpcNames} \subseteq rpcInFlight
    /\ subs[Handle(2, "C")].st = "failed"
    /\ subs[Handle(2, "D")].st = "listening"
    /\ subs[Handle(2, "C")].beforeSend
    /\ subs[Handle(2, "D")].beforeSend


(* what is left of the loop: two steps per transaction not yet processed, one
   of them taken when the transaction is being created *)
LoopVariant ==
    2 * (numTransactionsToRun - transactionsProcessed) - (IF pc = "creating" THEN 1 ELSE 0)

(* C37: the loop of handleSendTransaction runs out: every step of the loop
   ends it or lowers LoopVariant, which is never negative; attempts are
   started one at a time, the k-th of a run with the counter at k - 1 and
   below N; every attempt that ends raises the counter by one unless abort
   was chosen, and the loop ends with the counter below N only after an
   abort *)
C37_LoopTerminates ==
    [][ /\ (pc' # "idle" => LoopVariant' >= 0)
        /\ transactionsProcessed' <= numTransactionsToRun'
        /\ (pc # "idle" /\ <<pc, started, transactionsProcessed>>'
                             # <<pc, started, transactionsProcessed>>) =>
              /\ numTransactionsToRun' = numTransactionsToRun
              /\ (pc' = "idle" \/ LoopVariant' < LoopVariant)
        /\ started' # started =>
              LET counter == IF pc = "idle" THEN 0 ELSE transactionsProcessed
              IN  /\ started' = started + 1
                  /\ counter < numTransactionsToRun'
                  /\ transactionsProcessed' \in {counter, counter + 1}
                  /\ pc' = "creating" => transactionsProcessed' = counter
        /\ (pc = "creating" /\ pc' # "creating") =>
              /\ started' = started
              /\ \/ transactionsProcessed' = transactionsProcessed + 1
                 \/ /\ pc' = "idle"
                    /\ transactionsProcessed' = transactionsProcessed
                    /\ started \in rejected'
        /\ (pc # "idle" /\ pc' = "idle"
               /\ transactionsProcessed' < numTransactionsToRun') =>
              started' \in rejected' ]_vars

(* a run of two transactions has ended after two attempts, the first of which
   failed and was continued *)
C37_Witness ==
    /\ pc = "idle"
    /\ started = 2
    /\ numTransactionsToRun = 2
    /\ transactionsProcessed = 2
    /\ 1 \in rejected
    /\ RaceSetUp(2)


(* every WS endpoint of click g has reported to the callback *)
AllWsReported(g) ==
    \A e \in WsNames : single.subs[<<g, e>>] \in {"failed", "confirmed", "errored", "timedout"}

(* every RPC send of the current click has settled and was recorded *)
AllRpcSettled ==
    /\ single.pc = "idle"
    /\ \A r \in RpcNames : single.rpcPromises[r] \in {"sent", "error"}

(* C38: on the single-transaction page, PROCESS_COMPLETE has been dispatched
   in the current run exactly when every WS endpoint of the run has reported
   (confirmed or error) and every RPC send of the run has settled: it is
   dispatched once both hold, and never while an endpoint has not reported
   or a send is pending. *)
C38_CompleteWhenAllIn ==
    \A g \in Clicks :
        g = single.clicks =>
            (single.completes[g] > 0 <=> (AllWsReported(g) /\ AllRpcSettled))


(* C39: the detail resolver handles slot 0 like any other slot: the result
   slot is never null while the WS notification carried a slot, a first
   successful lookup that returns slot 0 ends the retries and gives slot 0,
   and when every lookup fails a WS slot of 0 is the slot of the result. *)
C39_SlotZeroLikeAnySlot ==
    rs.phase = "done" =>
        /\ rs.ctxSlot # NullNum => rs.result.payload.slot # NullNum
        /\ \A k \in 1..maxRetries :
              (FirstSuccess(rs.script, k) /\ rs.script[k].slot = 0) =>
                  /\ rs.result.payload.slot = 0
                  /\ rs.result.lookups = k
        /\ ((\A k \in 1..maxRetries : ~ReturnsSlot(rs.script[k])) /\ rs.ctxSlot = 0) =>
              rs.result.payload.slot = 0

====
